---- MODULE Spec2Model ----
(***************************************************************************)
(* Model of qris-dynamicify: the CRC16 engine, the EMV TLV parser, the     *)
(* dynamic-field mutators setPrice / setTax (the spec's setAmount and      *)
(* setServiceFee), the metadata extractor and the DynamicQris wrapper.     *)
(*                                                                         *)
(* A JavaScript string is a sequence of one-character strings; string      *)
(* indexes in operator arguments are the 0-based indexes of the source.    *)
(***************************************************************************)
EXTENDS Integers, Sequences, FiniteSets, TLC

VARIABLES
    qris,       \* the current payload (DynamicQris.qris / the value a caller chains)
    price,      \* DynamicQris.price
    taxAmount,  \* DynamicQris.taxAmount
    log,        \* the calls made so far: [op, arg, out, before]
    str,        \* computeCRC16: its argument
    c,          \* computeCRC16: the loop index
    crc,        \* computeCRC16: the register
    hex,        \* computeCRC16: the returned text, <<>> while the loop runs
    given,      \* parseEmv / extractMetadata: the string it is called on
    cursor,     \* parseEmv: i, a number or NaN
    record,     \* parseEmv: result, a mapping from tags to values
    seen,       \* parseEmv: what each pass of the loop has read, in order
    pc,         \* parseEmv / extractMetadata: "idle", "loop" or "returned"
    meta        \* extractMetadata: the returned object, <<>> before it returns

parserVars == <<given, cursor, record, seen, pc, meta>>

vars == <<qris, price, taxAmount, log, str, c, crc, hex, given, cursor,
          record, seen, pc, meta>>

(***************************************************************************)
(* Characters                                                              *)
(***************************************************************************)
Digits == <<"0", "1", "2", "3", "4", "5", "6", "7", "8", "9">>

UpperCase ==
    <<"A", "B", "C", "D", "E", "F", "G", "H", "I", "J", "K", "L", "M",
      "N", "O", "P", "Q", "R", "S", "T", "U", "V", "W", "X", "Y", "Z">>

LowerCase ==
    <<"a", "b", "c", "d", "e", "f", "g", "h", "i", "j", "k", "l", "m",
      "n", "o", "p", "q", "r", "s", "t", "u", "v", "w", "x", "y", "z">>

Range(s) == {s[i] : i \in 1..Len(s)}

DigitChars == Range(Digits)

IndexIn(s, ch) == CHOOSE i \in 1..Len(s) : s[i] = ch

\* The UTF-16 code unit of each character the model's strings are made of.
CharCode ==
    [ch \in DigitChars \cup Range(UpperCase) \cup Range(LowerCase)
            \cup {" ", "%", "+", "-", "."} |->
        IF ch \in DigitChars THEN 47 + IndexIn(Digits, ch)
        ELSE IF ch \in Range(UpperCase) THEN 64 + IndexIn(UpperCase, ch)
        ELSE IF ch \in Range(LowerCase) THEN 96 + IndexIn(LowerCase, ch)
        ELSE IF ch = " " THEN 32
        ELSE IF ch = "%" THEN 37
        ELSE IF ch = "+" THEN 43
        ELSE IF ch = "-" THEN 45
        ELSE 46]

charCodeAt(ch) == CharCode[ch]

IsDigit(ch) == ch \in DigitChars

DigitVal(ch) == IndexIn(Digits, ch) - 1

Max(a, b) == IF a >= b THEN a ELSE b

Min(a, b) == IF a <= b THEN a ELSE b

(***************************************************************************)
(* JavaScript string primitives used by the source                         *)
(***************************************************************************)
\* s.substring(a, b): both ends clamped to 0..length, swapped when a > b.
substring(s, a, b) ==
    LET ca == Min(Max(a, 0), Len(s))
        cb == Min(Max(b, 0), Len(s))
    IN  SubSeq(s, Min(ca, cb) + 1, Max(ca, cb))

\* s.slice(0, -n)
sliceOff(s, n) == SubSeq(s, 1, Max(Len(s) - n, 0))

startsWithAt(s, pat, i) ==
    /\ i + Len(pat) <= Len(s)
    /\ \A k \in 1..Len(pat) : s[i + k] = pat[k]

\* s.indexOf(pat): the 0-based index of the first occurrence, or -1.
indexOf(s, pat) ==
    LET hits == {i \in 0..(Len(s) - Len(pat)) : startsWithAt(s, pat, i)}
    IN  IF hits = {} THEN -1
        ELSE CHOOSE i \in hits : \A j \in hits : i <= j

endsWith(s, pat) ==
    Len(s) >= Len(pat) /\ startsWithAt(s, pat, Len(s) - Len(pat))

\* s.replace(pat, rep) with a string pattern: the first occurrence only.
replace(s, pat, rep) ==
    LET i == indexOf(s, pat)
    IN  IF i = -1 THEN s
        ELSE SubSeq(s, 1, i) \o rep \o SubSeq(s, i + Len(pat) + 1, Len(s))

\* s.split(sep) for a non-empty separator.
RECURSIVE split(_, _)
split(s, sep) ==
    LET i == indexOf(s, sep)
    IN  IF i = -1 THEN <<s>>
        ELSE <<SubSeq(s, 1, i)>> \o split(SubSeq(s, i + Len(sep) + 1, Len(s)), sep)

\* s.padStart(2, "0")
padStart2(s) ==
    IF Len(s) >= 2 THEN s
    ELSE IF Len(s) = 1 THEN <<"0">> \o s
    ELSE <<"0", "0">>

\* The decimal digits of a natural number.
RECURSIVE NatToStr(_)
NatToStr(n) ==
    IF n < 10 THEN <<Digits[n + 1]>>
    ELSE NatToStr(n \div 10) \o <<Digits[(n % 10) + 1]>>

\* String(n) for an integer n.
String(n) == IF n < 0 THEN <<"-">> \o NatToStr(-n) ELSE NatToStr(n)

(***************************************************************************)
(* computeCRC16                                                            *)
(***************************************************************************)
\* a ^ b for a, b in 0..15: XorNibble[a + 1][b + 1].
XorNibble ==
    <<
      << 0,  1,  2,  3,  4,  5,  6,  7,  8,  9, 10, 11, 12, 13, 14, 15>>,
      << 1,  0,  3,  2,  5,  4,  7,  6,  9,  8, 11, 10, 13, 12, 15, 14>>,
      << 2,  3,  0,  1,  6,  7,  4,  5, 10, 11,  8,  9, 14, 15, 12, 13>>,
      << 3,  2,  1,  0,  7,  6,  5,  4, 11, 10,  9,  8, 15, 14, 13, 12>>,
      << 4,  5,  6,  7,  0,  1,  2,  3, 12, 13, 14, 15,  8,  9, 10, 11>>,
      << 5,  4,  7,  6,  1,  0,  3,  2, 13, 12, 15, 14,  9,  8, 11, 10>>,
      << 6,  7,  4,  5,  2,  3,  0,  1, 14, 15, 12, 13, 10, 11,  8,  9>>,
      << 7,  6,  5,  4,  3,  2,  1,  0, 15, 14, 13, 12, 11, 10,  9,  8>>,
      << 8,  9, 10, 11, 12, 13, 14, 15,  0,  1,  2,  3,  4,  5,  6,  7>>,
      << 9,  8, 11, 10, 13, 12, 15, 14,  1,  0,  3,  2,  5,  4,  7,  6>>,
      <<10, 11,  8,  9, 14, 15, 12, 13,  2,  3,  0,  1,  6,  7,  4,  5>>,
      <<11, 10,  9,  8, 15, 14, 13, 12,  3,  2,  1,  0,  7,  6,  5,  4>>,
      <<12, 13, 14, 15,  8,  9, 10, 11,  4,  5,  6,  7,  0,  1,  2,  3>>,
      <<13, 12, 15, 14,  9,  8, 11, 10,  5,  4,  7,  6,  1,  0,  3,  2>>,
      <<14, 15, 12, 13, 10, 11,  8,  9,  6,  7,  4,  5,  2,  3,  0,  1>>,
      <<15, 14, 13, 12, 11, 10,  9,  8,  7,  6,  5,  4,  3,  2,  1,  0>>
    >>

\* a ^ b on non-negative integers, four bits at a time.
RECURSIVE Xor(_, _)
Xor(a, b) ==
    IF a = 0 THEN b
    ELSE IF b = 0 THEN a
    ELSE XorNibble[(a % 16) + 1][(b % 16) + 1] + 16 * Xor(a \div 16, b \div 16)

\* crcShift without the mask to 16 bits.
crcShiftNoMask(r) ==
    IF (r \div 32768) % 2 = 1
    THEN Xor(r * 2, 4129)
    ELSE r * 2

\* One pass of the inner loop body: the test of bit 15, the shift, the mask.
crcShift(r) ==
    IF (r \div 32768) % 2 = 1
    THEN Xor(r * 2, 4129) % 65536
    ELSE (r * 2) % 65536

RECURSIVE crcShifts(_, _)
crcShifts(r, n) == IF n = 0 THEN r ELSE crcShifts(crcShift(r), n - 1)

\* One pass of the outer loop body for the character ch.
crcByte(r, ch) == crcShifts(Xor(r, charCodeAt(ch) * 256), 8)

\* The passes c = i .. j-1 of the for loop over the characters, the register
\* being r before them.  The range is halved so that the evaluation of a
\* long string stays shallow; the passes run in the order of the loop.
RECURSIVE crcLoop(_, _, _, _)
crcLoop(s, i, j, r) ==
    IF ~(i < j) THEN r
    ELSE IF j = i + 1 THEN crcByte(r, s[i + 1])
    ELSE LET mid  == (i + j) \div 2
             half == crcLoop(s, i, mid, r)
         IN  IF half >= 0 THEN crcLoop(s, mid, j, half) ELSE half

\* The register when the loop ends: crc starts at 0xffff, c runs to str.length.
crcRegister(s) == crcLoop(s, 0, Len(s), 65535)

HexDigits ==
    <<"0", "1", "2", "3", "4", "5", "6", "7",
      "8", "9", "A", "B", "C", "D", "E", "F">>

\* n.toString(16).toUpperCase()
RECURSIVE toHexUpper(_)
toHexUpper(n) ==
    IF n < 16 THEN <<HexDigits[n + 1]>>
    ELSE toHexUpper(n \div 16) \o <<HexDigits[(n % 16) + 1]>>

\* The rendering of the register: padded only when 3 characters long.
crcHex(r) ==
    LET h == toHexUpper(r)
    IN  IF Len(h) = 3 THEN <<"0">> \o h ELSE h

computeCRC16(s) == crcHex(crcRegister(s))

(***************************************************************************)
(* setPrice and setTax (DynamicUtils)                                      *)
(***************************************************************************)
Lit010211 == <<"0", "1", "0", "2", "1", "1">>

Lit010212 == <<"0", "1", "0", "2", "1", "2">>

Lit5802ID == <<"5", "8", "0", "2", "I", "D">>

\* A call's result: the returned string, or the message of the Error thrown.
Returned(s) == [ok |-> TRUE, val |-> s, err |-> "none"]

Thrown(e) == [ok |-> FALSE, val |-> <<>>, err |-> e]

\* An argument value: a JavaScript number or a JavaScript string.
Num(n) == [kind |-> "number", num |-> n, text |-> <<>>]

Str(s) == [kind |-> "string", num |-> 0, text |-> s]

\* priceTag without the padding of the length to two digits.
priceTagNoPad(p) == <<"5", "4">> \o String(Len(String(p))) \o String(p)

\* `54${String(price).length.toString().padStart(2, "0")}${price}`
priceTag(p) == <<"5", "4">> \o padStart2(String(Len(String(p)))) \o String(p)

\* setPrice refusing a payload only when the anchor is absent.
setPriceAnyAnchor(staticQris, p) ==
    IF p < 0 THEN Thrown("Price must be >= 0")
    ELSE
        LET q     == replace(sliceOff(staticQris, 4), Lit010211, Lit010212)
            parts == split(q, Lit5802ID)
        IN  IF Len(parts) < 2
            THEN Thrown("Invalid QRIS format (missing 5802ID)")
            ELSE LET result == parts[1] \o priceTag(p) \o Lit5802ID \o parts[2]
                 IN  Returned(result \o computeCRC16(result))

setPrice(staticQris, p) ==
    IF p < 0 THEN Thrown("Price must be >= 0")
    ELSE
        LET q     == replace(sliceOff(staticQris, 4), Lit010211, Lit010212)
            parts == split(q, Lit5802ID)
        IN  IF Len(parts) # 2
            THEN Thrown("Invalid QRIS format (missing 5802ID)")
            ELSE LET result == parts[1] \o priceTag(p) \o Lit5802ID \o parts[2]
                 IN  Returned(result \o computeCRC16(result))

\* The tag built from the tax argument, <<>> when the argument is refused.
taxTag(tax) ==
    IF tax.kind = "number"
    THEN <<"5", "5", "0", "2", "0", "2", "5", "6">>
             \o padStart2(String(Len(String(tax.num)))) \o String(tax.num)
    ELSE IF endsWith(tax.text, <<"%">>)
    THEN LET percent == replace(tax.text, <<"%">>, <<>>)
         IN  <<"5", "5", "0", "2", "0", "3", "5", "7">>
                 \o padStart2(String(Len(percent))) \o percent
    ELSE <<>>

\* parts[0].match(/54\d{2}\d+/): the leftmost match, \d+ taking every digit
\* that follows; index -1 when there is none.
matchAmount(s) ==
    LET hits == {i \in 0..(Len(s) - 5) :
                    /\ s[i + 1] = "5"
                    /\ s[i + 2] = "4"
                    /\ IsDigit(s[i + 3])
                    /\ IsDigit(s[i + 4])
                    /\ IsDigit(s[i + 5])}
    IN  IF hits = {} THEN [index |-> -1, text |-> <<>>]
        ELSE LET i    == CHOOSE h \in hits : \A j \in hits : h <= j
                 ends == {e \in (i + 5)..Len(s) :
                             \A k \in (i + 1)..e : k <= i + 2 \/ IsDigit(s[k])}
                 last == CHOOSE e \in ends : \A f \in ends : f <= e
             IN  [index |-> i, text |-> SubSeq(s, i + 1, last)]

setTax(staticQris, tax) ==
    LET tag == taxTag(tax)
    IN  IF tag = <<>>
        THEN Thrown("Invalid tax format, must be a number or a percentage string (e.g., '10%').")
        ELSE
            LET q     == replace(sliceOff(staticQris, 4), Lit010211, Lit010212)
                parts == split(q, Lit5802ID)
            IN  IF Len(parts) # 2
                THEN Thrown("Invalid QRIS format (missing 5802ID tag).")
                ELSE
                    LET match == matchAmount(parts[1])
                    IN  IF match.index = -1
                        THEN Thrown("QRIS does not contain a transaction amount (tag 54). Please call setPrice() first.")
                        ELSE
                            LET withTax == replace(parts[1], match.text,
                                                   match.text \o tag)
                                result  == withTax \o Lit5802ID \o parts[2]
                            IN  Returned(result \o computeCRC16(result))

(***************************************************************************)
(* parseEmv (emvParser) and extractMetadata (metadata)                     *)
(***************************************************************************)
MaxParseSteps == 100

RECURSIVE skipSpaces(_)
skipSpaces(t) ==
    IF Len(t) > 0 /\ t[1] = " " THEN skipSpaces(Tail(t)) ELSE t

\* The value of the longest prefix of t made of digits, given the value v
\* of the digits already read.
RECURSIVE digitsValue(_, _)
digitsValue(t, v) ==
    IF Len(t) > 0 /\ IsDigit(t[1])
    THEN digitsValue(Tail(t), 10 * v + DigitVal(t[1]))
    ELSE v

\* parseInt(t, 10): leading white space, an optional sign, then digits up
\* to the first character that is not one; NaN when there is no digit.
parseInt(t) ==
    LET u    == skipSpaces(t)
        neg  == Len(u) > 0 /\ u[1] = "-"
        body == IF Len(u) > 0 /\ u[1] \in {"-", "+"} THEN Tail(u) ELSE u
    IN  IF Len(body) = 0 \/ ~IsDigit(body[1])
        THEN [nan |-> TRUE, val |-> 0]
        ELSE [nan |-> FALSE,
              val |-> IF neg THEN -digitsValue(body, 0) ELSE digitsValue(body, 0)]

\* The while loop of parseEmv from cursor i on: the fields read, in order,
\* each with the cursor it was read at.  done is FALSE when the loop has not
\* ended after `fuel` more passes.
RECURSIVE emvLoop(_, _, _, _)
emvLoop(s, i, acc, fuel) ==
    IF ~(i < Len(s)) THEN [done |-> TRUE, fields |-> acc]
    ELSE IF fuel = 0 THEN [done |-> FALSE, fields |-> acc]
    ELSE
        LET tag == substring(s, i, i + 2)
            len == parseInt(substring(s, i + 2, i + 4))
        IN  IF len.nan
            \* value = substring(i + 4, NaN); i becomes NaN and the loop ends
            THEN [done   |-> TRUE,
                  fields |-> Append(acc, [tag |-> tag, at |-> i, len |-> -1,
                                          value |-> substring(s, i + 4, 0)])]
            ELSE emvLoop(s, i + 4 + len.val,
                         Append(acc, [tag |-> tag, at |-> i, len |-> len.val,
                                      value |-> substring(s, i + 4, i + 4 + len.val)]),
                         fuel - 1)

emvFields(s) == emvLoop(s, 0, <<>>, MaxParseSteps).fields

emvTerminates(s) == emvLoop(s, 0, <<>>, MaxParseSteps).done

\* result[tag] = value, pass after pass: a later field replaces an earlier
\* one of the same tag.
RECURSIVE emvRecord(_, _)
emvRecord(fields, n) ==
    IF n = 0 THEN <<>>
    ELSE (fields[n].tag :> fields[n].value) @@ emvRecord(fields, n - 1)

parseEmv(s) == LET f == emvFields(s) IN emvRecord(f, Len(f))

Undefined == <<"undefined">>

Null == <<"null">>

\* emv[tag]
Get(emv, tag) == IF tag \in DOMAIN emv THEN emv[tag] ELSE Undefined

\* emv[tag] || dflt
GetOr(emv, tag, dflt) ==
    IF Get(emv, tag) \in {Undefined, <<>>} THEN dflt ELSE Get(emv, tag)

toUpperCase(s) ==
    [i \in 1..Len(s) |->
        IF s[i] \in Range(LowerCase) THEN UpperCase[IndexIn(LowerCase, s[i])]
        ELSE s[i]]

GenericGui ==
    <<"I", "D", ".", "C", "O", ".", "Q", "R", "I", "S", ".", "W", "W", "W">>

CandidateTags == <<<<"2", "6">>, <<"2", "7">>, <<"5", "1">>>>

\* The for loop without its break: every accepted candidate overwrites
\* company, and merchant_pan when it has an account.
RECURSIVE companyLoopNoBreak(_, _)
companyLoopNoBreak(emv, k) ==
    IF k > Len(CandidateTags) THEN [company |-> <<>>, merchant_pan |-> <<>>]
    ELSE
        LET tag   == CandidateTags[k]
            later == companyLoopNoBreak(emv, k + 1)
        IN  IF GetOr(emv, tag, <<>>) = <<>> THEN later
            ELSE
                LET nested == parseEmv(emv[tag])
                    gui    == GetOr(nested, <<"0", "0">>, <<>>)
                    acc    == GetOr(nested, <<"0", "1">>, <<>>)
                IN  IF gui # <<>> /\ toUpperCase(gui) # GenericGui
                    THEN [company      |-> IF later.company # <<>>
                                           THEN later.company ELSE gui,
                          merchant_pan |-> IF later.merchant_pan # <<>>
                                           THEN later.merchant_pan ELSE acc]
                    ELSE later

\* The for loop of extractMetadata from the k-th candidate tag on.
RECURSIVE companyLoop(_, _)
companyLoop(emv, k) ==
    IF k > Len(CandidateTags) THEN [company |-> <<>>, merchant_pan |-> <<>>]
    ELSE
        LET tag == CandidateTags[k]
        IN  IF GetOr(emv, tag, <<>>) = <<>> THEN companyLoop(emv, k + 1)
            ELSE
                LET nested == parseEmv(emv[tag])
                    gui    == GetOr(nested, <<"0", "0">>, <<>>)
                    acc    == GetOr(nested, <<"0", "1">>, <<>>)
                IN  IF gui # <<>> /\ toUpperCase(gui) # GenericGui
                    THEN [company |-> gui, merchant_pan |-> acc]
                    ELSE companyLoop(emv, k + 1)

extractMetadata(s) ==
    LET emv == parseEmv(s)
        co  == companyLoop(emv, 1)
    IN  [merchant     |-> GetOr(emv, <<"5", "9">>, <<>>),
         company      |-> co.company,
         region       |-> GetOr(emv, <<"6", "0">>, <<>>),
         country      |-> GetOr(emv, <<"5", "8">>, <<"I", "D">>),
         postal_code  |-> GetOr(emv, <<"6", "1">>, <<>>),
         merchant_pan |-> co.merchant_pan,
         price        |-> GetOr(emv, <<"5", "4">>, Null),
         tax          |-> GetOr(emv, <<"5", "5">>, Null)]

(***************************************************************************)
(* The payloads and arguments the calls are made with                      *)
(***************************************************************************)
\* "00020101021153033605802ID5903ABC63047AE4"
StaticPlain ==
    <<"0", "0", "0", "2", "0", "1", "0", "1", "0", "2", "1", "1", "5", "3",
      "0", "3", "3", "6", "0", "5", "8", "0", "2", "I", "D", "5", "9", "0",
      "3", "A", "B", "C", "6", "3", "0", "4", "7", "A", "E", "4">>

\* "00020101021126260008AB54123Z0110936000123453033605802ID5903ABC630452DC"
StaticMerchant ==
    <<"0", "0", "0", "2", "0", "1", "0", "1", "0", "2", "1", "1", "2", "6",
      "2", "6", "0", "0", "0", "8", "A", "B", "5", "4", "1", "2", "3", "Z",
      "0", "1", "1", "0", "9", "3", "6", "0", "0", "0", "1", "2", "3", "4",
      "5", "3", "0", "3", "3", "6", "0", "5", "8", "0", "2", "I", "D", "5",
      "9", "0", "3", "A", "B", "C", "6", "3", "0", "4", "5", "2", "D", "C">>

\* "0002010102115204541153033605802ID5903ABC630428C3"
StaticGrocery ==
    <<"0", "0", "0", "2", "0", "1", "0", "1", "0", "2", "1", "1", "5", "2",
      "0", "4", "5", "4", "1", "1", "5", "3", "0", "3", "3", "6", "0", "5",
      "8", "0", "2", "I", "D", "5", "9", "0", "3", "A", "B", "C", "6", "3",
      "0", "4", "2", "8", "C", "3">>

\* "00020101021153033605802SG5903ABC6304E853"
NoCountryCode ==
    <<"0", "0", "0", "2", "0", "1", "0", "1", "0", "2", "1", "1", "5", "3",
      "0", "3", "3", "6", "0", "5", "8", "0", "2", "S", "G", "5", "9", "0",
      "3", "A", "B", "C", "6", "3", "0", "4", "E", "8", "5", "3">>

\* "00020101021153033605802ID5903ABC621001065802ID630468D4"
TwoCountryCodes ==
    <<"0", "0", "0", "2", "0", "1", "0", "1", "0", "2", "1", "1", "5", "3",
      "0", "3", "3", "6", "0", "5", "8", "0", "2", "I", "D", "5", "9", "0",
      "3", "A", "B", "C", "6", "2", "1", "0", "0", "1", "0", "6", "5", "8",
      "0", "2", "I", "D", "6", "3", "0", "4", "6", "8", "D", "4">>

InitialPayloads ==
    {StaticPlain, StaticMerchant, StaticGrocery, NoCountryCode, TwoCountryCodes}

\* 1010211 is written with the digits 010211, the text setPrice and setTax
\* rewrite to 010212.
Amounts == {-1, 0, 360, 10000, 50000, 1010211}

Taxes ==
    {Num(-5), Num(2000),
     Str(<<"1", "0", "%">>), Str(<<"%">>), Str(<<"A", "B", "%">>),
     Str(<<"1", "0">>)}

MaxCalls == 2

\* "": register 0xFFFF
Empty ==
    <<>>

\* "123456789": register 0x29B1
Check123456789 ==
    <<"1", "2", "3", "4", "5", "6", "7", "8", "9">>

\* "HM": register 0x0003
RegisterOneDigit ==
    <<"H", "M">>

\* "0E": register 0x00FB
RegisterTwoDigits ==
    <<"0", "E">>

\* "02": register 0x0E8B
RegisterThreeDigits ==
    <<"0", "2">>

\* "0QRN": register 0x0000
RegisterZero ==
    <<"0", "Q", "R", "N">>

\* "00020101021153033605802ID5903ABC6304": register 0x7AE4
PlainBody ==
    <<"0", "0", "0", "2", "0", "1", "0", "1", "0", "2", "1", "1", "5", "3",
      "0", "3", "3", "6", "0", "5", "8", "0", "2", "I", "D", "5", "9", "0",
      "3", "A", "B", "C", "6", "3", "0", "4">>

\* "000201010212530336054033605802ID5903ABC6304": register 0x00CA
PricedBody360 ==
    <<"0", "0", "0", "2", "0", "1", "0", "1", "0", "2", "1", "2", "5", "3",
      "0", "3", "3", "6", "0", "5", "4", "0", "3", "3", "6", "0", "5", "8",
      "0", "2", "I", "D", "5", "9", "0", "3", "A", "B", "C", "6", "3", "0",
      "4">>

CrcInputs ==
    {Empty,
     Check123456789,
     RegisterOneDigit,
     RegisterTwoDigits,
     RegisterThreeDigits,
     RegisterZero,
     PlainBody,
     PricedBody360}

(***************************************************************************)
(* A caller chaining the exported setPrice / setTax: each call is made on  *)
(* the payload the last successful call returned.                          *)
(***************************************************************************)
\* parseEmv and extractMetadata have not been called.
ParserIdle ==
    /\ given = <<>>
    /\ cursor = [nan |-> FALSE, val |-> 0]
    /\ record = <<>>
    /\ seen = <<>>
    /\ pc = "idle"
    /\ meta = <<>>

Call(op, arg, out) == [op |-> op, arg |-> arg, out |-> out, before |-> qris]

Init ==
    /\ qris \in InitialPayloads
    /\ price = 0
    /\ taxAmount = 0
    /\ log = <<>>
    /\ str = <<>>
    /\ c = 0
    /\ crc = 65535
    /\ hex = <<>>
    /\ ParserIdle

CallSetPrice(a) ==
    /\ Len(log) < MaxCalls
    /\ LET r == setPrice(qris, a)
       IN  /\ qris' = IF r.ok THEN r.val ELSE qris
           /\ log' = Append(log, Call("setPrice", Num(a), r))
    /\ UNCHANGED <<price, taxAmount, str, c, crc, hex, parserVars>>

CallSetTax(t) ==
    /\ Len(log) < MaxCalls
    /\ LET r == setTax(qris, t)
       IN  /\ qris' = IF r.ok THEN r.val ELSE qris
           /\ log' = Append(log, Call("setTax", t, r))
    /\ UNCHANGED <<price, taxAmount, str, c, crc, hex, parserVars>>

Next ==
    \/ \E a \in Amounts : CallSetPrice(a)
    \/ \E t \in Taxes : CallSetTax(t)

Spec == Init /\ [][Next]_vars

(***************************************************************************)
(* DynamicQris: the wrapper object holding qris, price and taxAmount       *)
(***************************************************************************)
\* parseFloat(t) for the texts of the model, whose numeric prefix has no
\* fraction and no exponent: white space, an optional sign, digits.
parseFloat(t) == parseInt(t)

\* Math.round((percent / 100) * p) for naturals percent and p.
roundPercent(percent, p) == (2 * percent * p + 100) \div 200

DynamicQris_setPrice(a) ==
    /\ Len(log) < MaxCalls
    /\ IF a < 0
       THEN /\ log' = Append(log, Call("setPrice", Num(a), Thrown("Price must be >= 0")))
            /\ UNCHANGED <<qris, price>>
       ELSE LET r == setPrice(qris, a)
            IN  /\ price' = a
                /\ qris' = IF r.ok THEN r.val ELSE qris
                /\ log' = Append(log, Call("setPrice", Num(a), r))
    /\ UNCHANGED <<taxAmount, str, c, crc, hex, parserVars>>

DynamicQris_setTax(t) ==
    /\ Len(log) < MaxCalls
    /\ LET refused ==
               IF t.kind = "number"
               THEN IF t.num < 0 THEN "Tax must be >= 0" ELSE "none"
               ELSE IF endsWith(t.text, <<"%">>)
               THEN IF parseFloat(t.text).nan \/ parseFloat(t.text).val < 0
                    THEN "Invalid tax percentage" ELSE "none"
               ELSE "Invalid tax format"
           r == setTax(qris, t)
       IN  IF refused # "none"
           THEN /\ log' = Append(log, Call("setTax", t, Thrown(refused)))
                /\ UNCHANGED <<qris, taxAmount>>
           ELSE /\ taxAmount' = IF t.kind = "number" THEN t.num
                                ELSE roundPercent(parseFloat(t.text).val, price)
                /\ qris' = IF r.ok THEN r.val ELSE qris
                /\ log' = Append(log, Call("setTax", t, r))
    /\ UNCHANGED <<price, str, c, crc, hex, parserVars>>

DynamicQrisNext ==
    \/ \E a \in Amounts : DynamicQris_setPrice(a)
    \/ \E t \in Taxes : DynamicQris_setTax(t)

DynamicQrisSpec == Init /\ [][DynamicQrisNext]_vars

(***************************************************************************)
(* computeCRC16 pass by pass                                               *)
(***************************************************************************)
CrcInit ==
    /\ str \in CrcInputs
    /\ c = 0
    /\ crc = 65535
    /\ hex = <<>>
    /\ qris = <<>>
    /\ price = 0
    /\ taxAmount = 0
    /\ log = <<>>
    /\ ParserIdle

\* One pass of the for loop over the characters.
CrcPass ==
    /\ hex = <<>>
    /\ c < Len(str)
    /\ crc' = crcByte(crc, str[c + 1])
    /\ c' = c + 1
    /\ UNCHANGED <<str, hex, qris, price, taxAmount, log, parserVars>>

\* The loop has ended: the register is rendered and returned.
CrcReturn ==
    /\ hex = <<>>
    /\ ~(c < Len(str))
    /\ hex' = crcHex(crc)
    /\ UNCHANGED <<str, c, crc, qris, price, taxAmount, log, parserVars>>

CrcNext == CrcPass \/ CrcReturn

CrcSpec == CrcInit /\ [][CrcNext]_vars

(***************************************************************************)
(* parseEmv pass by pass                                                   *)
(***************************************************************************)
MaxPasses == 10

\* "0002AB0103XYZ": well formed: 00 = AB, 01 = XYZ
TwoFields ==
    <<"0", "0", "0", "2", "A", "B", "0", "1", "0", "3", "X", "Y", "Z">>

\* "0001A0102XY0001B": well formed, tag 00 twice: A, then B
RepeatedTag ==
    <<"0", "0", "0", "1", "A", "0", "1", "0", "2", "X", "Y", "0", "0", "0",
      "1", "B">>

\* "0008AB54123Z01109360001234": well formed: the value of field 26 of StaticMerchant
MerchantInfo ==
    <<"0", "0", "0", "8", "A", "B", "5", "4", "1", "2", "3", "Z", "0", "1",
      "1", "0", "9", "3", "6", "0", "0", "0", "1", "2", "3", "4">>

\* "0002AB010": 3 characters remain at the second field boundary
ShortHeader ==
    <<"0", "0", "0", "2", "A", "B", "0", "1", "0">>

\* "0002AB01ZZQ": the second length is ZZ
LengthNotNumeric ==
    <<"0", "0", "0", "2", "A", "B", "0", "1", "Z", "Z", "Q">>

\* "0002AB0105XY": the second field declares 5 characters, 2 remain
ShortValue ==
    <<"0", "0", "0", "2", "A", "B", "0", "1", "0", "5", "X", "Y">>

\* "00+1A0101B": the first length is +1
LengthSigned ==
    <<"0", "0", "+", "1", "A", "0", "1", "0", "1", "B">>

\* "00 2AB": the first length is a space and 2
LengthSpaced ==
    <<"0", "0", " ", "2", "A", "B">>

\* "001xA": the first length is 1x
LengthDigitThenLetter ==
    <<"0", "0", "1", "x", "A">>

\* "00-4": the length is -4
NegativeLength ==
    <<"0", "0", "-", "4">>

\* "000000-8": an empty field 00, then length -8
NegativeCycle ==
    <<"0", "0", "0", "0", "0", "0", "-", "8">>

\* "00-5": the length is -5
NegativeBackward ==
    <<"0", "0", "-", "5">>

\* "00020101021253033605405100005405500005802ID5903ABC6304A94B":
\* StaticPlain after setPrice 10000 and setPrice 50000, tag 54 twice
PricedTwice ==
    <<"0", "0", "0", "2", "0", "1", "0", "1", "0", "2", "1", "2", "5", "3",
      "0", "3", "3", "6", "0", "5", "4", "0", "5", "1", "0", "0", "0", "0",
      "5", "4", "0", "5", "5", "0", "0", "0", "0", "5", "8", "0", "2", "I",
      "D", "5", "9", "0", "3", "A", "B", "C", "6", "3", "0", "4", "A", "9",
      "4", "B">>

ParseInputs ==
    {Empty,
     PricedTwice,
     StaticPlain,
     StaticMerchant,
     StaticGrocery,
     NoCountryCode,
     TwoCountryCodes,
     TwoFields,
     RepeatedTag,
     MerchantInfo,
     ShortHeader,
     LengthNotNumeric,
     ShortValue,
     LengthSigned,
     LengthSpaced,
     LengthDigitThenLetter,
     NegativeLength,
     NegativeCycle,
     NegativeBackward}

\* What one pass of the while loop reads at cursor i: tag, len (a number
\* or NaN) and value.  substring(i + 4, NaN) is substring(i + 4, 0).
emvPass(s, i) ==
    LET len == parseInt(substring(s, i + 2, i + 4))
    IN  [tag   |-> substring(s, i, i + 2),
         len   |-> len,
         value |-> IF len.nan THEN substring(s, i + 4, 0)
                   ELSE substring(s, i + 4, i + 4 + len.val)]

\* result[tag] = value, keeping the value the tag already has
emvAssignKeepFirst(result, tag, value) ==
    IF tag \in DOMAIN result THEN result ELSE (tag :> value) @@ result

\* result[tag] = value
emvAssign(result, tag, value) == (tag :> value) @@ result

ParseInit ==
    /\ given \in ParseInputs
    /\ cursor = [nan |-> FALSE, val |-> 0]
    /\ record = <<>>
    /\ seen = <<>>
    /\ pc = "loop"
    /\ meta = <<>>
    /\ qris = <<>>
    /\ price = 0
    /\ taxAmount = 0
    /\ log = <<>>
    /\ str = <<>>
    /\ c = 0
    /\ crc = 65535
    /\ hex = <<>>

\* while (i < qris.length): one pass.  i += 4 + len makes i NaN when len is.
ParsePass ==
    /\ pc = "loop"
    /\ ~cursor.nan
    /\ cursor.val < Len(given)
    /\ Len(seen) < MaxPasses
    /\ LET r == emvPass(given, cursor.val)
       IN  /\ record' = emvAssign(record, r.tag, r.value)
           /\ cursor' = IF r.len.nan THEN [nan |-> TRUE, val |-> 0]
                        ELSE [nan |-> FALSE, val |-> cursor.val + 4 + r.len.val]
           /\ seen' = Append(seen, [tag |-> r.tag, at |-> cursor.val,
                                    len |-> r.len, value |-> r.value])
    /\ UNCHANGED <<given, pc, meta, qris, price, taxAmount, log, str, c, crc, hex>>

\* The loop condition is false (a comparison with NaN is): return result.
ParseReturn ==
    /\ pc = "loop"
    /\ cursor.nan \/ ~(cursor.val < Len(given))
    /\ pc' = "returned"
    /\ UNCHANGED <<given, cursor, record, seen, meta, qris, price, taxAmount,
                   log, str, c, crc, hex>>

ParseNext == ParsePass \/ ParseReturn

ParseSpec == ParseInit /\ [][ParseNext]_vars

(***************************************************************************)
(* extractMetadata called on payloads with every choice of the merchant    *)
(* account fields 26, 27 and 51                                            *)
(***************************************************************************)
\* "0014ID.CO.QRIS.WWW0102P0": the generic scheme identifier, with an account
GenericAccount ==
    <<"0", "0", "1", "4", "I", "D", ".", "C", "O", ".", "Q", "R", "I", "S",
      ".", "W", "W", "W", "0", "1", "0", "2", "P", "0">>

\* "0014id.co.qris.www0102P0": the generic identifier in lower case
GenericLowerCase ==
    <<"0", "0", "1", "4", "i", "d", ".", "c", "o", ".", "q", "r", "i", "s",
      ".", "w", "w", "w", "0", "1", "0", "2", "P", "0">>

\* "0005COM.A0102P1": identifier COM.A, account P1
AccountA ==
    <<"0", "0", "0", "5", "C", "O", "M", ".", "A", "0", "1", "0", "2", "P",
      "1">>

\* "0005Net.b": identifier Net.b, no account
AccountB ==
    <<"0", "0", "0", "5", "N", "e", "t", ".", "b">>

\* "00000102P9": an empty identifier, with an account
EmptyIdentifier ==
    <<"0", "0", "0", "0", "0", "1", "0", "2", "P", "9">>

\* A field is left out of the payload.
Absent == <<"absent">>

AccountChoices ==
    {Absent, <<>>, GenericAccount, GenericLowerCase, AccountA, AccountB,
     EmptyIdentifier}

\* The field tag + 2-digit length + value, nothing for an absent one.
Field(tag, value) ==
    IF value = Absent THEN <<>>
    ELSE tag \o padStart2(String(Len(value))) \o value

\* "000201" "010211" [26] [27] [51] "5802ID" "5903ABC" "6304" + checksum
MetaPayload(v26, v27, v51) ==
    LET body == <<"0", "0", "0", "2", "0", "1", "0", "1", "0", "2", "1", "1">>
                \o Field(<<"2", "6">>, v26) \o Field(<<"2", "7">>, v27)
                \o Field(<<"5", "1">>, v51)
                \o <<"5", "8", "0", "2", "I", "D", "5", "9", "0", "3", "A",
                     "B", "C", "6", "3", "0", "4">>
    IN  body \o computeCRC16(body)

MetaInputs ==
    {MetaPayload(v26, v27, v51) :
        v26 \in AccountChoices, v27 \in AccountChoices, v51 \in AccountChoices}

MetaInit ==
    /\ given \in MetaInputs
    /\ pc = "called"
    /\ meta = <<>>
    /\ cursor = [nan |-> FALSE, val |-> 0]
    /\ record = <<>>
    /\ seen = <<>>
    /\ qris = <<>>
    /\ price = 0
    /\ taxAmount = 0
    /\ log = <<>>
    /\ str = <<>>
    /\ c = 0
    /\ crc = 65535
    /\ hex = <<>>

MetaCall ==
    /\ pc = "called"
    /\ meta' = extractMetadata(given)
    /\ pc' = "returned"
    /\ UNCHANGED <<given, cursor, record, seen, qris, price, taxAmount, log,
                   str, c, crc, hex>>

MetaNext == MetaCall

MetaSpec == MetaInit /\ [][MetaNext]_vars

(***************************************************************************)
(* Properties of computeCRC16 (checked under CrcSpec)                      *)
(***************************************************************************)
\* C2: for every input, computeChecksum returns exactly 4 characters, each
\* an uppercase hexadecimal digit, whatever the value of the register.
C2_FourHexDigits ==
    hex # <<>> =>
        /\ Len(hex) = 4
        /\ \A i \in 1..Len(hex) : hex[i] \in Range(HexDigits)

\* Bit k of x inverted.
RefToggle(x, k) ==
    IF (x \div (2 ^ k)) % 2 = 1 THEN x - 2 ^ k ELSE x + 2 ^ k

\* The CRC-16/CCITT-FALSE shift register fed one message bit: the register
\* moves left by one, and x^16 + x^12 + x^5 + 1 is subtracted when the bit
\* that leaves it differs from the message bit.
RefBit(reg, bit) ==
    LET out  == reg \div 32768
        left == (reg % 32768) * 2
    IN  IF out # bit THEN RefToggle(RefToggle(RefToggle(left, 12), 5), 0)
        ELSE left

\* The register fed the bits k, k-1, .., 0 of a byte, most significant first.
RECURSIVE RefBits(_, _, _)
RefBits(reg, byte, k) ==
    LET fed == RefBit(reg, (byte \div (2 ^ k)) % 2)
    IN  IF k = 0 THEN fed ELSE RefBits(fed, byte, k - 1)

\* The reference register after the characters s[i+1..j], from reg.
RECURSIVE RefCrc(_, _, _, _)
RefCrc(s, i, j, reg) ==
    IF i >= j THEN reg
    ELSE IF j = i + 1 THEN RefBits(reg, charCodeAt(s[j]), 7)
    ELSE LET mid  == (i + j) \div 2
             half == RefCrc(s, i, mid, reg)
         IN  IF half >= 0 THEN RefCrc(s, mid, j, half) ELSE half

\* C3: after each byte the register is within 0..0xFFFF and equals the
\* register of the reference CRC-16/CCITT-FALSE (initial value 0xFFFF,
\* polynomial 0x1021, no reflection, no final XOR) on the characters read so
\* far; the empty string leaves 0xFFFF and "123456789" gives 0x29B1.
C3_RegisterIsCcittFalse ==
    /\ crc \in 0..65535
    /\ crc = RefCrc(str, 0, c, 65535)
    /\ (c = 0 => crc = 65535)
    /\ (str = Check123456789 /\ c = Len(str) => crc = 10673)

\* The check value has been computed and returned.
C3_Witness ==
    /\ str = Check123456789
    /\ c = Len(str)
    /\ hex = <<"2", "9", "B", "1">>

(***************************************************************************)
(* Properties of setPrice and setTax (checked under Spec)                  *)
(***************************************************************************)
Last == log[Len(log)]

\* The messages of the errors setPrice and setTax throw.
InvalidPriceError == "Price must be >= 0"

InvalidTaxError ==
    "Invalid tax format, must be a number or a percentage string (e.g., '10%')."

MissingAnchorErrors ==
    {"Invalid QRIS format (missing 5802ID)",
     "Invalid QRIS format (missing 5802ID tag)."}

MissingAmountError ==
    "QRIS does not contain a transaction amount (tag 54). Please call setPrice() first."

\* The 0-based indexes at which pat occurs in s.
Occurrences(s, pat) ==
    {i \in 0..(Len(s) - Len(pat)) : SubSeq(s, i + 1, i + Len(pat)) = pat}

\* Some call has been made and none has thrown.
AllCallsSucceeded ==
    log # <<>> /\ \A i \in 1..Len(log) : log[i].out.ok

\* C1: after any sequence of successful setAmount and setServiceFee calls
\* the payload is sealed: its trailing 4 characters are the checksum of
\* every character that precedes them.
C1_Sealed ==
    AllCallsSucceeded =>
        /\ Len(qris) >= 4
        /\ SubSeq(qris, Len(qris) - 3, Len(qris))
               = computeCRC16(SubSeq(qris, 1, Len(qris) - 4))

\* The number of decimal digits of a natural number.
RECURSIVE NumDigits(_)
NumDigits(a) == IF a < 10 THEN 1 ELSE 1 + NumDigits(a \div 10)

\* t is the plain decimal rendering of the natural number a.
IsDecimalOf(t, a) ==
    /\ Len(t) = NumDigits(a)
    /\ \A i \in 1..Len(t) : IsDigit(t[i])
    /\ digitsValue(t, 0) = a

\* The result of setAmount(before, a) as the claim describes it: the body
\* (checksum stripped, point-of-sale indicator flipped) split at its one
\* anchor, with the amount field put in front of the anchor.
IsAmountInserted(before, a, after) ==
    LET body == replace(SubSeq(before, 1, Len(before) - 4), Lit010211, Lit010212)
        k    == CHOOSE i \in Occurrences(body, Lit5802ID) : TRUE
        n    == NumDigits(a)
        at   == k + 4 + n + 6
        \* after[1..k] prefix, then 54, LL, the digits, the anchor, the suffix
    IN  /\ Len(after) >= Len(body) + 4 + n
        /\ SubSeq(after, 1, k) = SubSeq(body, 1, k)
        /\ SubSeq(after, k + 1, k + 2) = <<"5", "4">>
        /\ after[k + 3] = Digits[(n \div 10) + 1]
        /\ after[k + 4] = Digits[(n % 10) + 1]
        /\ IsDecimalOf(SubSeq(after, k + 5, k + 4 + n), a)
        /\ SubSeq(after, k + 5 + n, k + 4 + n + 6) = Lit5802ID
        /\ SubSeq(after, at + 1, Len(body) + 4 + n)
               = SubSeq(body, k + 7, Len(body))
        /\ SubSeq(after, Len(body) + 5 + n, Len(after))
               = computeCRC16(SubSeq(after, 1, Len(body) + 4 + n))

\* C4: on a payload whose checksum-stripped body holds the run 5802ID
\* exactly once, setAmount(p, a) with a >= 0 returns prefix + "54" + the
\* two-digit count of a's decimal digits + those digits + "5802ID" + suffix
\* + checksum; a = 10000 inserts "540510000", and on a static payload
\* a = 50000 parses as field 54 with length 05 and value "50000".
C4_AmountBeforeAnchor ==
    (/\ log # <<>>
     /\ Last.op = "setPrice"
     /\ Last.arg.num >= 0
     /\ Len(Last.before) >= 4
     /\ Cardinality(Occurrences(SubSeq(Last.before, 1, Len(Last.before) - 4),
                                Lit5802ID)) = 1)
    =>  /\ Last.out.ok
        /\ qris = Last.out.val
        /\ IsAmountInserted(Last.before, Last.arg.num, qris)
        /\ Last.arg.num = 10000 =>
               Occurrences(qris, <<"5", "4", "0", "5", "1", "0", "0", "0", "0",
                                   "5", "8", "0", "2", "I", "D">>) # {}
        /\ (Last.arg.num = 50000 /\ Last.before \in InitialPayloads) =>
               \E i \in 1..Len(emvFields(qris)) :
                   /\ emvFields(qris)[i].tag = <<"5", "4">>
                   /\ emvFields(qris)[i].len = 5
                   /\ emvFields(qris)[i].value = <<"5", "0", "0", "0", "0">>
                   /\ SubSeq(qris, emvFields(qris)[i].at + 3,
                             emvFields(qris)[i].at + 4) = <<"0", "5">>

\* setAmount(StaticPlain, 50000) has returned.
C4_Witness ==
    /\ log # <<>>
    /\ Last.op = "setPrice"
    /\ Last.arg.num = 50000
    /\ Last.before = StaticPlain
    /\ Last.out.ok
    /\ qris = Last.out.val
    /\ qris # Last.before

\* Some setAmount call has succeeded.
AmountWasSet ==
    \E i \in 1..Len(log) : log[i].op = "setPrice" /\ log[i].out.ok

\* C5: once setAmount has succeeded the payload is dynamic (its root-level
\* tag 01 parses to "12") and stays so after every later setAmount or
\* setServiceFee call.
C5_StaysDynamic ==
    AmountWasSet => Get(parseEmv(qris), <<"0", "1">>) = <<"1", "2">>

\* The fee argument has one of the two shapes setTax builds a tag from.
HasFeeShape(t) == t.kind = "number" \/ endsWith(t.text, <<"%">>)

\* The root-level fields of a payload that carry the given tag.
FieldsTagged(p, tag) ==
    {i \in 1..Len(emvFields(p)) : emvFields(p)[i].tag = tag}

\* C6: setServiceFee on a payload on which setAmount was never called (a
\* static payload with no root-level tag 54 field) fails with the
\* missing-amount error and yields no new payload, whatever the payload's
\* other fields hold.
C6_FeeNeedsAmount ==
    (/\ Len(log) = 1
     /\ Last.op = "setTax"
     /\ HasFeeShape(Last.arg)
     /\ FieldsTagged(Last.before, <<"5", "4">>) = {})
    =>  /\ ~Last.out.ok
        /\ Last.out.err \in MissingAnchorErrors \cup {MissingAmountError}
        /\ qris = Last.before

\* setAmount has succeeded and the next call, setServiceFee, has too.
AmountThenFee ==
    /\ Len(log) >= 2
    /\ log[Len(log) - 1].op = "setPrice"
    /\ log[Len(log) - 1].out.ok
    /\ Last.op = "setTax"
    /\ Last.out.ok

\* C7: after setAmount followed by setServiceFee, both successful, the fee
\* field comes right after the amount field: at the root parse level field
\* 54 appears strictly before field 55, which appears strictly before
\* field 58.
C7_FeeAfterAmount ==
    AmountThenFee =>
        LET f == emvFields(qris)
        IN  \E i, k \in 1..Len(f) :
                /\ i + 1 < k
                /\ f[i].tag = <<"5", "4">>
                /\ f[i + 1].tag = <<"5", "5">>
                /\ f[k].tag = <<"5", "8">>

\* The text of a fee as it was set.
FeeValues(t) ==
    IF t.kind = "number" THEN {String(t.num)}
    ELSE {t.text, replace(t.text, <<"%">>, <<>>)}

\* C8: after setAmount(a) then setServiceFee(f), parsing the payload and
\* reading fields 54 and 55 as extractMetadata's price and tax do gives
\* the values that were set: the decimal digits of a, and the fee f.
C8_RoundTrip ==
    AmountThenFee =>
        /\ extractMetadata(qris).price = String(log[Len(log) - 1].arg.num)
        /\ extractMetadata(qris).tax \in FeeValues(Last.arg)

\* The prefix of a percentage fee is a number written in digits.
IsNumericText(t) == Len(t) > 0 /\ \A i \in 1..Len(t) : IsDigit(t[i])

\* The fee is a non-negative number or a string "<number>%".
IsAcceptableFee(t) ==
    \/ t.kind = "number" /\ t.num >= 0
    \/ /\ t.kind = "string"
       /\ endsWith(t.text, <<"%">>)
       /\ IsNumericText(SubSeq(t.text, 1, Len(t.text) - 1))

\* C9: setServiceFee accepts a fee only if it is a non-negative number or a
\* string ending in "%" whose prefix is numeric; on any other shape it
\* fails with the invalid-argument error and produces no payload.
C9_FeeShapeChecked ==
    (/\ log # <<>>
     /\ Last.op = "setTax"
     /\ ~IsAcceptableFee(Last.arg))
    =>  /\ ~Last.out.ok
        /\ Last.out.err = InvalidTaxError
        /\ qris = Last.before

\* The body of the payload a call was made on does not hold 5802ID exactly
\* once.
AnchorNotUnique(call) ==
    Cardinality(Occurrences(SubSeq(call.before, 1, Len(call.before) - 4),
                            Lit5802ID)) # 1

\* C10 as stated: setAmount and setServiceFee fail with the missing-field
\* error, returning no payload, whenever the checksum-stripped body does not
\* contain the run 5802ID exactly once.
C10_AsStated ==
    (log # <<>> /\ AnchorNotUnique(Last))
    =>  /\ ~Last.out.ok
        /\ Last.out.err \in MissingAnchorErrors
        /\ qris = Last.before

\* The argument passes the check the call makes before it looks for the
\* anchor: a >= 0 for setAmount, a number or a "%" string for setServiceFee.
ArgumentPasses(call) ==
    IF call.op = "setPrice" THEN call.arg.num >= 0 ELSE HasFeeShape(call.arg)

\* C10 amended: with an argument that passes the argument check, the calls
\* fail with the missing-field error whenever the body does not hold 5802ID
\* exactly once; with an argument that does not pass, they fail with the
\* argument error.  Either way no payload is returned.
C10_MissingAnchor ==
    (log # <<>> /\ AnchorNotUnique(Last))
    =>  /\ ~Last.out.ok
        /\ qris = Last.before
        /\ IF ArgumentPasses(Last)
           THEN Last.out.err \in MissingAnchorErrors
           ELSE Last.out.err \in {InvalidPriceError, InvalidTaxError}

\* Both calls have failed for the anchor on a payload that carries it twice:
\* setAmount first, setServiceFee on the unchanged payload after it.
C10_Witness ==
    /\ Len(log) = 2
    /\ log[1].op = "setPrice"
    /\ log[1].arg.num = 10000
    /\ log[1].before = TwoCountryCodes
    /\ log[1].out.err \in MissingAnchorErrors
    /\ log[2].op = "setTax"
    /\ log[2].arg = Num(2000)
    /\ log[2].out.err \in MissingAnchorErrors

(***************************************************************************)
(* Properties of parseEmv (checked under ParseSpec)                        *)
(***************************************************************************)
\* The text from 0-based position j on is a run of whole fields: at every
\* field boundary at least 4 characters remain, the 2 length characters
\* are decimal digits, and the declared number of value characters remain.
RECURSIVE WellFormedFrom(_, _)
WellFormedFrom(s, j) ==
    IF j >= Len(s) THEN TRUE
    ELSE IF Len(s) - j < 4 THEN FALSE
    ELSE IF ~(IsDigit(s[j + 3]) /\ IsDigit(s[j + 4])) THEN FALSE
    ELSE LET n == 10 * DigitVal(s[j + 3]) + DigitVal(s[j + 4])
         IN  IF j + 4 + n > Len(s) THEN FALSE
             ELSE WellFormedFrom(s, j + 4 + n)

\* C11: parse fails with a malformed-TLV error, instead of returning a
\* result, when at a field boundary fewer than 4 characters remain, when
\* the length is not a non-negative decimal integer, or when fewer than the
\* declared number of value characters remain: it returns a result only
\* for a text that is a run of whole fields.
C11_MalformedRejected == pc = "returned" => WellFormedFrom(given, 0)

(***************************************************************************)
(* Properties of extractMetadata (checked under MetaSpec)                  *)
(***************************************************************************)
\* a and b are the same text when the case of letters is ignored
SameIgnoringCase(a, b) ==
    /\ Len(a) = Len(b)
    /\ \A n \in 1..Len(a) :
        \/ a[n] = b[n]
        \/ \E l \in 1..Len(UpperCase) :
              {a[n], b[n]} = {UpperCase[l], LowerCase[l]}

\* The sub-tag of the root field `tag` of payload p, <<>> when the root
\* field or the sub-tag is missing.
SubTag(p, tag, sub) ==
    LET root == parseEmv(p)
    IN  IF tag \notin DOMAIN root THEN <<>>
        ELSE LET nested == parseEmv(root[tag])
             IN  IF sub \in DOMAIN nested THEN nested[sub] ELSE <<>>

\* The k-th candidate of payload p is present, and its sub-tag 00 is
\* non-empty and not the generic scheme identifier.
IsAccepted(p, k) ==
    /\ CandidateTags[k] \in DOMAIN parseEmv(p)
    /\ SubTag(p, CandidateTags[k], <<"0", "0">>) # <<>>
    /\ ~SameIgnoringCase(SubTag(p, CandidateTags[k], <<"0", "0">>), GenericGui)

\* C12: extractMetadata takes company and merchant account number from the
\* first of the root tags 26, 27, 51 that is present and whose sub-tag 00 is
\* non-empty and not, ignoring case, the generic identifier: company is that
\* sub-tag 00 and merchant_pan that candidate's sub-tag 01; later candidates
\* are not consulted; when no candidate is accepted both are empty.
C12_FirstAcceptedCandidate ==
    pc = "returned" =>
        LET accepted == {k \in 1..Len(CandidateTags) : IsAccepted(given, k)}
        IN  IF accepted = {}
            THEN meta.company = <<>> /\ meta.merchant_pan = <<>>
            ELSE LET first == CHOOSE k \in accepted : \A j \in accepted : k <= j
                 IN  /\ meta.company =
                            SubTag(given, CandidateTags[first], <<"0", "0">>)
                     /\ meta.merchant_pan =
                            SubTag(given, CandidateTags[first], <<"0", "1">>)

\* The metadata of a payload whose field 26 has the generic identifier,
\* field 27 COM.A with account P1 and field 51 Net.b: 27 is taken.
C12_Witness ==
    /\ pc = "returned"
    /\ given = MetaPayload(GenericAccount, AccountA, AccountB)
    /\ meta.company = <<"C", "O", "M", ".", "A">>
    /\ meta.merchant_pan = <<"P", "1">>

(***************************************************************************)
(* Further properties of setPrice / setTax (checked under Spec)            *)
(***************************************************************************)
\* C13: setAmount and setServiceFee insert or update: after any sequence
\* of successful calls the payload's root level holds at most one field
\* with tag 54 and at most one with tag 55, the single field 54 holding
\* the amount set last.
C13_InsertOrUpdate ==
    AllCallsSucceeded =>
        /\ Cardinality(FieldsTagged(qris, <<"5", "4">>)) <= 1
        /\ Cardinality(FieldsTagged(qris, <<"5", "5">>)) <= 1
        /\ Last.op = "setPrice" =>
               \A i \in FieldsTagged(qris, <<"5", "4">>) :
                   IsDecimalOf(emvFields(qris)[i].value, Last.arg.num)

(***************************************************************************)
(* Further properties of parseEmv (checked under ParseSpec)                *)
(***************************************************************************)
\* C14: parse terminates on every input: each pass of the loop moves the
\* cursor forward by at least 4, so the loop never makes more passes than
\* the input has characters.
C14_PassesBounded == Len(seen) <= Len(given)

\* The passes of the loop that read the tag t.
PassesReading(t) == {n \in 1..Len(seen) : seen[n].tag = t}

\* C15 as stated: when a tag occurs more than once at one parse level, the
\* mapping returned by parse holds the value of its first occurrence.
C15_FirstOccurrence ==
    pc = "returned" =>
        \A t \in DOMAIN record :
            \E n \in PassesReading(t) :
                /\ \A k \in PassesReading(t) : n <= k
                /\ record[t] = seen[n].value

\* C15, amended: the mapping returned by parse has the tags the loop has
\* read, and holds for each the value of its last occurrence.
C15_LastOccurrence ==
    pc = "returned" =>
        /\ DOMAIN record = {seen[n].tag : n \in 1..Len(seen)}
        /\ \A t \in DOMAIN record :
            \E n \in PassesReading(t) :
                /\ \A k \in PassesReading(t) : k <= n
                /\ record[t] = seen[n].value

\* parse has returned for "0001A0102XY0001B", where tag 00 occurs with
\* value A and later with value B: the mapping holds B.
C15_Witness ==
    /\ pc = "returned"
    /\ given = RepeatedTag
    /\ Cardinality(PassesReading(<<"0", "0">>)) = 2
    /\ record[<<"0", "0">>] = <<"B">>

\* setAmount has succeeded, and setServiceFee after it on the payload it
\* returned.
FeeSetOnAmount ==
    /\ Len(log) = 2
    /\ log[1].op = "setPrice" /\ log[1].out.ok
    /\ log[2].op = "setTax" /\ log[2].out.ok

\* C16: for a payload p produced by setAmount(_, a), setServiceFee(p, f)
\* changes nothing in p's body except inserting the fee field: the result's
\* body is p's body with the fee text put in at one place, and the tag 54
\* field still carries exactly the digits of a.
C16_OnlyFeeInserted ==
    FeeSetOnAmount =>
        LET before == sliceOff(log[2].before, 4)
            after  == sliceOff(qris, 4)
            fee    == taxTag(log[2].arg)
        IN  /\ \E k \in 0..Len(before) :
                  after = SubSeq(before, 1, k) \o fee
                          \o SubSeq(before, k + 1, Len(before))
            /\ \E i \in FieldsTagged(qris, <<"5", "4">>) :
                  IsDecimalOf(emvFields(qris)[i].value, log[1].arg.num)

(***************************************************************************)
(* Properties of DynamicQris (checked under DynamicQrisSpec)               *)
(***************************************************************************)
\* C17: a DynamicQris.setPrice or DynamicQris.setTax call that throws
\* leaves the instance unchanged: its payload, its cached price and its
\* cached taxAmount keep the values they had before the call.
C17_ThrowChangesNothing ==
    [][(Len(log') = Len(log) + 1 /\ ~log'[Len(log')].out.ok)
         => (qris' = qris /\ price' = price /\ taxAmount' = taxAmount)]_vars

====
